---- MODULE Spec2Model ----
(***************************************************************************)
(* A model of the in-memory CRUD service of src/main.py: the Exercise,     *)
(* Workout and Address stores, the pydantic shapes of src/models and the   *)
(* request handlers that read and write the stores.                        *)
(*                                                                         *)
(* Encoding.  A UUID and a timestamp are integers.  A JSON value is a      *)
(* one-element tuple <<v>>; JSON null (Python None) is the empty tuple.    *)
(* A JSON object, a dict and a pydantic model are functions from field     *)
(* names to values; a JSON array in a response is [items |-> sequence].    *)
(* A Python dict that is iterated (a store) is the sequence of its items   *)
(* in insertion order.                                                     *)
(***************************************************************************)
EXTENDS Integers, Sequences, FiniteSets, TLC

VARIABLES exercises, workouts, addresses, uuidCount, now, resp, inflight

vars == <<exercises, workouts, addresses, uuidCount, now, resp, inflight>>

(* ------------------------------ bounds -------------------------------- *)

\* uuid4() is called at most MaxUuid times; it returns 1, 2, ... in turn, each a
\* value no client has used before
MaxUuid == 1
\* the clock read by datetime.utcnow() runs from 0 to MaxClock
MaxClock == 1

\* worker threads that handle requests at the same time
MaxThreads == 2

(* ------------------------------ values -------------------------------- *)

None == <<>>

Some(v) == <<v>>

\* identifiers a client made up itself
ClientUuids == {0}

\* identifiers a client can put in a path or a body: its own, and every
\* identifier the server has handed out
KnownUuids == ClientUuids \cup (1..uuidCount)

\* the empty JSON object
EmptyObject == [f \in {} |-> None]

(* --------------------------- Python dict ------------------------------ *)

Keys(d) == {d[i].k : i \in 1..Len(d)}

Has(d, key) == key \in Keys(d)

Lookup(d, key) == d[CHOOSE i \in 1..Len(d) : d[i].k = key].v

SetItem(d, key, value) ==
    IF Has(d, key)
    THEN [i \in 1..Len(d) |-> IF d[i].k = key THEN [k |-> key, v |-> value] ELSE d[i]]
    ELSE Append(d, [k |-> key, v |-> value])

IsNotKey(e, key) == e.k # key

DelItem(d, key) == SelectSeq(d, LAMBDA e : IsNotKey(e, key))

Values(d) == [i \in 1..Len(d) |-> d[i].v]

\* dict.update: the keys of other overwrite or extend those of d
DictUpdate(d, other) ==
    [f \in DOMAIN d \cup DOMAIN other |-> IF f \in DOMAIN other THEN other[f] ELSE d[f]]

\* a field of a dict, or its default when the key is absent
FieldOr(d, f, default) == IF f \in DOMAIN d THEN d[f] ELSE default

Restrict(d, fields) == [f \in DOMAIN d \cap fields |-> d[f]]

(* ------------------------- models/exercise.py ------------------------- *)

ExerciseRequired == {"name", "muscle_group", "difficulty", "instructions"}

ExerciseOptional == {"equipment", "calories_per_minute"}

ExerciseUpdateFields == ExerciseRequired \cup ExerciseOptional

\* ExerciseBase validation that takes a null for a value
ExerciseBaseValid_present(d) ==
    /\ \A f \in ExerciseRequired : f \in DOMAIN d
    /\ "id" \in DOMAIN d => d["id"] \in Int

\* ExerciseBase validation: a required field is present and not null, and an
\* identifier, when given, is a UUID
ExerciseBaseValid(d) ==
    /\ \A f \in ExerciseRequired : f \in DOMAIN d /\ d[f] # None
    /\ "id" \in DOMAIN d => d["id"] \in Int

\* ExerciseCreate(**d): id defaults to uuid4(), here u; Optional fields to None
ExerciseCreate(d, u) ==
    [id |-> FieldOr(d, "id", u),
     name |-> d["name"],
     muscle_group |-> d["muscle_group"],
     equipment |-> FieldOr(d, "equipment", None),
     difficulty |-> d["difficulty"],
     instructions |-> d["instructions"],
     calories_per_minute |-> FieldOr(d, "calories_per_minute", None)]

\* ExerciseRead(**d): as ExerciseBase, and created_at and updated_at default to
\* two calls of datetime.utcnow(), here t1 and t2
ExerciseRead(d, u, t1, t2) ==
    [id |-> FieldOr(d, "id", u),
     name |-> d["name"],
     muscle_group |-> d["muscle_group"],
     equipment |-> FieldOr(d, "equipment", None),
     difficulty |-> d["difficulty"],
     instructions |-> d["instructions"],
     calories_per_minute |-> FieldOr(d, "calories_per_minute", None),
     created_at |-> FieldOr(d, "created_at", t1),
     updated_at |-> FieldOr(d, "updated_at", t2)]

\* ExerciseUpdate(**d).model_dump(exclude_unset=True): the fields of the model
\* that the body sets, explicit nulls included; other keys are ignored
ExerciseUpdate(d) == Restrict(d, ExerciseUpdateFields)

(* ------------------------------ inputs -------------------------------- *)

PushUps ==
    [name |-> Some("Push-ups"), muscle_group |-> Some("Chest"),
     difficulty |-> Some("Beginner"), instructions |-> Some("plank, lower, push")]

BenchPress ==
    [name |-> Some("Bench Press"), muscle_group |-> Some("Chest"),
     equipment |-> Some("Barbell"), difficulty |-> Some("Intermediate"),
     instructions |-> Some("lie, grip, lower, press"),
     calories_per_minute |-> Some(6)]

\* a body whose required name is null: rejected by ExerciseCreate
NamelessExercise == [PushUps EXCEPT !["name"] = None]

ExerciseBodies == {PushUps, BenchPress}

WithId(body, id) == DictUpdate(body, [id |-> id])

\* the bodies of POST and PUT: each body without an identifier, and with each
\* identifier the client knows
ExerciseCreateBodies ==
    ExerciseBodies \cup {WithId(b, i) : b \in ExerciseBodies, i \in KnownUuids}
        \cup {NamelessExercise}

ExercisePatches ==
    { EmptyObject,
      [difficulty |-> Some("Advanced")],
      [name |-> None],
      [id |-> 0, equipment |-> None] }

(* ----------------------------- responses ------------------------------ *)

Response(op, id, req, status, body) ==
    [op |-> op, id |-> id, req |-> req, status |-> status, body |-> body]

\* the identifier of a request that has none in its path: no UUID
NoId == 0 - 1

\* the body of the 422 response that FastAPI sends for a request it cannot validate
Unprocessable == [detail |-> "validation error"]

\* the body of the 500 response for an exception that no handler catches
InternalServerError == [detail |-> "Internal Server Error"]

(* ------------------------------ clock --------------------------------- *)

\* time passes between requests; the calls of datetime.utcnow() made while
\* one request is handled read the same value
Tick ==
    /\ now < MaxClock
    /\ now' = now + 1
    /\ UNCHANGED <<exercises, workouts, addresses, uuidCount, resp, inflight>>

(* ------------------------------ scope --------------------------------- *)

\* A handler reads and writes the store of its own resource only, so requests
\* to different resources commute.  A behaviour sends its requests to one
\* resource at a time: a resource is addressed while the other stores are empty.
Alone(resource) ==
    /\ resource # "exercises" => exercises = <<>>
    /\ resource # "workouts" => workouts = <<>>
    /\ resource # "addresses" => addresses = <<>>

(* ------------------------- Exercise endpoints ------------------------- *)

\* what a handler leaves behind: the status of the response, its body and the store
Outcome(status, body, store) == [status |-> status, body |-> body, store |-> store]

\* the request body parsed as ExerciseCreate; uuid4() is called when it names no id
ParsedExercise(body) == ExerciseCreate(body, uuidCount + 1)

UuidCountAfter(body) == IF "id" \in DOMAIN body THEN uuidCount ELSE uuidCount + 1

UuidLeft(body) == "id" \in DOMAIN body \/ uuidCount < MaxUuid

create_exercise_outcome(exercise, t1, t2) ==
    LET exercise_read == ExerciseRead(exercise, NoId, t1, t2)
    IN Outcome(201, exercise_read, SetItem(exercises, exercise_read.id, exercise_read))

create_exercise_request(body) ==
    IF ~ExerciseBaseValid(body)
    THEN /\ resp' = Response("create_exercise", NoId, body, 422, Unprocessable)
         /\ UNCHANGED <<exercises, workouts, addresses, uuidCount, now, inflight>>
    ELSE /\ UuidLeft(body)
         /\ LET out == create_exercise_outcome(ParsedExercise(body), now, now)
            IN /\ exercises' = out.store
               /\ resp' = Response("create_exercise", NoId, body,
                                   out.status, out.body)
         /\ uuidCount' = UuidCountAfter(body)
         /\ UNCHANGED <<workouts, addresses, now, inflight>>

create_exercise ==
    /\ Alone("exercises")
    /\ \E body \in ExerciseCreateBodies : create_exercise_request(body)

\* a query parameter that is not None keeps the records whose field equals it
KeepEqual(results, field, param) ==
    IF param # None THEN SelectSeq(results, LAMBDA e : e[field] = param) ELSE results

\* list_exercises with the difficulty filter applied to the equipment field
list_exercises_results_swapped(name, muscle_group, equipment, difficulty) ==
    LET r0 == Values(exercises)
        r1 == KeepEqual(r0, "name", name)
        r2 == KeepEqual(r1, "muscle_group", muscle_group)
        r3 == KeepEqual(r2, "equipment", equipment)
        r4 == KeepEqual(r3, "equipment", difficulty)
    IN r4

list_exercises_results(name, muscle_group, equipment, difficulty) ==
    LET r0 == Values(exercises)
        r1 == KeepEqual(r0, "name", name)
        r2 == KeepEqual(r1, "muscle_group", muscle_group)
        r3 == KeepEqual(r2, "equipment", equipment)
        r4 == KeepEqual(r3, "difficulty", difficulty)
    IN r4

\* the query strings: no filter, each filter alone, two and four filters together
NoExerciseQuery ==
    [name |-> None, muscle_group |-> None, equipment |-> None, difficulty |-> None]

ExerciseQueries ==
    { NoExerciseQuery,
      [NoExerciseQuery EXCEPT !.name = Some("Push-ups")],
      [NoExerciseQuery EXCEPT !.muscle_group = Some("Chest")],
      [NoExerciseQuery EXCEPT !.equipment = Some("Barbell")],
      [NoExerciseQuery EXCEPT !.difficulty = Some("Advanced")],
      [NoExerciseQuery EXCEPT !.muscle_group = Some("Chest"),
                              !.difficulty = Some("Beginner")],
      [name |-> Some("Bench Press"), muscle_group |-> Some("Chest"),
       equipment |-> Some("Barbell"), difficulty |-> Some("Advanced")] }

list_exercises_request(q) ==
    /\ resp' = Response("list_exercises", NoId, q, 200,
                        [items |-> list_exercises_results(q.name, q.muscle_group,
                                               q.equipment, q.difficulty)])
    /\ UNCHANGED <<exercises, workouts, addresses, uuidCount, now, inflight>>

list_exercises ==
    /\ Alone("exercises")
    /\ \E q \in ExerciseQueries : list_exercises_request(q)

get_exercise_outcome(exercise_id) ==
    IF ~Has(exercises, exercise_id)
    THEN Outcome(404, [detail |-> "Exercise not found"], exercises)
    ELSE Outcome(200, Lookup(exercises, exercise_id), exercises)

get_exercise_request(exercise_id) ==
    LET out == get_exercise_outcome(exercise_id)
    IN /\ resp' = Response("get_exercise", exercise_id, EmptyObject, out.status, out.body)
       /\ exercises' = out.store
       /\ UNCHANGED <<workouts, addresses, uuidCount, now, inflight>>

get_exercise ==
    /\ Alone("exercises")
    /\ \E exercise_id \in KnownUuids : get_exercise_request(exercise_id)

replace_exercise_outcome(exercise_id, exercise, t1, t2) ==
    LET stored == SetItem(exercises, exercise_id, ExerciseRead(exercise, NoId, t1, t2))
    IN Outcome(200, Lookup(stored, exercise_id), stored)

replace_exercise_request(exercise_id, body) ==
    IF ~ExerciseBaseValid(body)
    THEN /\ resp' = Response("replace_exercise", exercise_id, body, 422, Unprocessable)
         /\ UNCHANGED <<exercises, workouts, addresses, uuidCount, now, inflight>>
    ELSE /\ UuidLeft(body)
         /\ LET out == replace_exercise_outcome(exercise_id, ParsedExercise(body), now, now)
            IN /\ exercises' = out.store
               /\ resp' = Response("replace_exercise", exercise_id, body,
                                   out.status, out.body)
         /\ uuidCount' = UuidCountAfter(body)
         /\ UNCHANGED <<workouts, addresses, now, inflight>>

replace_exercise ==
    /\ Alone("exercises")
    /\ \E exercise_id \in KnownUuids, body \in ExerciseCreateBodies :
          replace_exercise_request(exercise_id, body)

\* the merge with exclude_none=True in place of exclude_unset=True
update_exercise_stored_exclude_none(exercise_id, update) ==
    DictUpdate(Lookup(exercises, exercise_id),
               Restrict(update, {f \in DOMAIN update : update[f] # None}))

\* stored = exercises[exercise_id].model_dump()
\* stored.update(update.model_dump(exclude_unset=True))
update_exercise_stored(exercise_id, update) ==
    DictUpdate(Lookup(exercises, exercise_id), update)

\* ExerciseRead(**stored) raises a ValidationError, which no handler catches (a
\* 500 response), before the store is assigned
update_exercise_outcome(exercise_id, update) ==
    IF ~Has(exercises, exercise_id)
    THEN Outcome(404, [detail |-> "Exercise not found"], exercises)
    ELSE LET stored == update_exercise_stored(exercise_id, update)
         IN IF ~ExerciseBaseValid(stored)
            THEN Outcome(500, InternalServerError, exercises)
            ELSE LET after == SetItem(exercises, exercise_id,
                                      ExerciseRead(stored, NoId, now, now))
                 IN Outcome(200, Lookup(after, exercise_id), after)

update_exercise_request(exercise_id, body) ==
    LET out == update_exercise_outcome(exercise_id, ExerciseUpdate(body))
    IN /\ resp' = Response("update_exercise", exercise_id, body, out.status, out.body)
       /\ exercises' = out.store
       /\ UNCHANGED <<workouts, addresses, uuidCount, now, inflight>>

update_exercise ==
    /\ Alone("exercises")
    /\ \E exercise_id \in KnownUuids, body \in ExercisePatches :
          update_exercise_request(exercise_id, body)

\* delete_exercise without the existence check
delete_exercise_outcome_unchecked(exercise_id) ==
    Outcome(200, [message |-> "Exercise deleted successfully"],
            DelItem(exercises, exercise_id))

delete_exercise_outcome(exercise_id) ==
    IF ~Has(exercises, exercise_id)
    THEN Outcome(404, [detail |-> "Exercise not found"], exercises)
    ELSE Outcome(200, [message |-> "Exercise deleted successfully"], DelItem(exercises, exercise_id))

delete_exercise_request(exercise_id) ==
    LET out == delete_exercise_outcome(exercise_id)
    IN /\ resp' = Response("delete_exercise", exercise_id, EmptyObject, out.status, out.body)
       /\ exercises' = out.store
       /\ UNCHANGED <<workouts, addresses, uuidCount, now, inflight>>

delete_exercise ==
    /\ Alone("exercises")
    /\ \E exercise_id \in KnownUuids : delete_exercise_request(exercise_id)

(* -------------------------- models/workout.py ------------------------- *)

\* a string of digits and dashes is the sequence of its characters
Digits == <<"0", "1", "2", "3", "4", "5", "6", "7", "8", "9">>

IsDigit(c) == \E n \in 1..10 : Digits[n] = c

DigitValue(c) == (CHOOSE n \in 1..10 : Digits[n] = c) - 1

\* a datetime.date is <<year, month, day>>
IsDate(x) == x \in Seq(Int) /\ Len(x) = 3

\* the JSON string of a date: exactly YYYY-MM-DD
IsIsoDate(x) ==
    /\ Len(x) = 10
    /\ x[5] = "-" /\ x[8] = "-"
    /\ \A i \in {1, 2, 3, 4, 6, 7, 9, 10} : IsDigit(x[i])
    /\ 10 * DigitValue(x[6]) + DigitValue(x[7]) \in 1..12
    /\ 10 * DigitValue(x[9]) + DigitValue(x[10]) \in 1..31

\* date.fromisoformat
ParseDate(x) ==
    << 1000 * DigitValue(x[1]) + 100 * DigitValue(x[2]) + 10 * DigitValue(x[3])
          + DigitValue(x[4]),
       10 * DigitValue(x[6]) + DigitValue(x[7]),
       10 * DigitValue(x[9]) + DigitValue(x[10]) >>

\* the character of the digit of n at the place of the given power of ten
DigitAt(n, power) == Digits[((n \div power) % 10) + 1]

\* str(date): the year on four digits, the month and the day on two
DateStr(d) ==
    << DigitAt(d[1], 1000), DigitAt(d[1], 100), DigitAt(d[1], 10), DigitAt(d[1], 1), "-",
       DigitAt(d[2], 10), DigitAt(d[2], 1), "-",
       DigitAt(d[3], 10), DigitAt(d[3], 1) >>

WorkoutRequired == {"user_name", "workout_date"}

WorkoutUpdateFields ==
    {"user_name", "workout_date", "exercises", "duration_minutes",
     "calories_burned", "notes"}

\* validation of a JSON body as WorkoutCreate: the required fields are present
\* and not null, the date is an ISO date, a given exercises list is not null
WorkoutCreateValid(d) ==
    /\ \A f \in WorkoutRequired : f \in DOMAIN d /\ d[f] # None
    /\ IsIsoDate(d["workout_date"][1])
    /\ "exercises" \in DOMAIN d => d["exercises"] # None
    /\ "id" \in DOMAIN d => d["id"] \in Int

\* validation of a JSON body as WorkoutUpdate: every field may be null or absent
WorkoutUpdateValid(d) ==
    ("workout_date" \in DOMAIN d /\ d["workout_date"] # None)
        => IsIsoDate(d["workout_date"][1])

\* validation of a dumped model as WorkoutRead
WorkoutReadValid(d) ==
    /\ \A f \in WorkoutRequired : f \in DOMAIN d /\ d[f] # None
    /\ IsDate(d["workout_date"][1])
    /\ "exercises" \in DOMAIN d => d["exercises"] # None

\* WorkoutCreate(**d): id defaults to uuid4(), here u; exercises to []
WorkoutCreate(d, u) ==
    [id |-> FieldOr(d, "id", u),
     user_name |-> d["user_name"],
     workout_date |-> Some(ParseDate(d["workout_date"][1])),
     exercises |-> FieldOr(d, "exercises", Some(<<>>)),
     duration_minutes |-> FieldOr(d, "duration_minutes", None),
     calories_burned |-> FieldOr(d, "calories_burned", None),
     notes |-> FieldOr(d, "notes", None)]

\* WorkoutRead(**d): created_at and updated_at default to two calls of utcnow()
WorkoutRead(d, u, t1, t2) ==
    [id |-> FieldOr(d, "id", u),
     user_name |-> d["user_name"],
     workout_date |-> d["workout_date"],
     exercises |-> FieldOr(d, "exercises", Some(<<>>)),
     duration_minutes |-> FieldOr(d, "duration_minutes", None),
     calories_burned |-> FieldOr(d, "calories_burned", None),
     notes |-> FieldOr(d, "notes", None),
     created_at |-> FieldOr(d, "created_at", t1),
     updated_at |-> FieldOr(d, "updated_at", t2)]

\* WorkoutUpdate(**d).model_dump(exclude_unset=True): the set fields, the date parsed
WorkoutUpdate(d) ==
    [f \in DOMAIN d \cap WorkoutUpdateFields |->
        IF f = "workout_date" /\ d[f] # None THEN Some(ParseDate(d[f][1])) ELSE d[f]]

(* ------------------------------ inputs -------------------------------- *)

Sep14 == <<"2", "0", "2", "5", "-", "0", "9", "-", "1", "4">>

Sep15 == <<"2", "0", "2", "5", "-", "0", "9", "-", "1", "5">>

\* the same day as Sep14, not zero-padded
Sep14Short == <<"2", "0", "2", "5", "-", "9", "-", "1", "4">>

Stretching ==
    [user_name |-> Some("John Doe"), workout_date |-> Some(Sep14),
     duration_minutes |-> Some(0)]

Lifting ==
    [user_name |-> Some("Jane Smith"), workout_date |-> Some(Sep15),
     exercises |-> Some(<<"Bench Press", "Deadlifts">>),
     duration_minutes |-> Some(45), calories_burned |-> Some(450),
     notes |-> Some("New personal record")]

\* a body whose date is not an ISO date: rejected by WorkoutCreate
UndatedWorkout == [Stretching EXCEPT !["workout_date"] = Some(Sep14Short)]

WorkoutBodies == {Stretching, Lifting}

WorkoutCreateBodies ==
    WorkoutBodies \cup {WithId(b, i) : b \in WorkoutBodies, i \in KnownUuids}
        \cup {UndatedWorkout}

WorkoutPatches ==
    { EmptyObject,
      [notes |-> Some("Short but intense")],
      [exercises |-> None],
      [id |-> 0, duration_minutes |-> None] }

\* the query strings: no filter, each duration threshold alone, the other
\* filters alone, and two filters together
WorkoutQueries ==
    [user_name : {None},
     workout_date : {None},
     duration_minutes : {None, Some(-1), Some(0), Some(45), Some(46)}]
      \cup
    [user_name : {None},
     workout_date : {Some(Sep14), Some(Sep14Short)},
     duration_minutes : {None}]
      \cup
    [user_name : {Some("John Doe")},
     workout_date : {None},
     duration_minutes : {None, Some(0)}]

(* -------------------------- Workout endpoints ------------------------- *)

ParsedWorkout(body) == WorkoutCreate(body, uuidCount + 1)

create_workout_outcome(workout, t1, t2) ==
    LET workout_read == WorkoutRead(workout, NoId, t1, t2)
    IN Outcome(201, workout_read, SetItem(workouts, workout_read.id, workout_read))

create_workout_request(body) ==
    IF ~WorkoutCreateValid(body)
    THEN /\ resp' = Response("create_workout", NoId, body, 422, Unprocessable)
         /\ UNCHANGED <<exercises, workouts, addresses, uuidCount, now, inflight>>
    ELSE /\ UuidLeft(body)
         /\ LET out == create_workout_outcome(ParsedWorkout(body), now, now)
            IN /\ workouts' = out.store
               /\ resp' = Response("create_workout", NoId, body,
                                   out.status, out.body)
         /\ uuidCount' = UuidCountAfter(body)
         /\ UNCHANGED <<exercises, addresses, now, inflight>>

create_workout ==
    /\ Alone("workouts")
    /\ \E body \in WorkoutCreateBodies : create_workout_request(body)

\* bool(x) of an Optional[int]: None and 0 are false
Truthy(x) == x # None /\ x[1] # 0

\* w.duration_minutes and w.duration_minutes >= duration_minutes
DurationAtLeast(w, duration_minutes) ==
    Truthy(w.duration_minutes) /\ w.duration_minutes[1] >= duration_minutes[1]

DateStrEquals(w, workout_date) == DateStr(w.workout_date[1]) = workout_date[1]

list_workouts_results(user_name, workout_date, duration_minutes) ==
    LET r0 == Values(workouts)
        r1 == KeepEqual(r0, "user_name", user_name)
        r2 == IF workout_date # None
              THEN SelectSeq(r1, LAMBDA w : DateStrEquals(w, workout_date))
              ELSE r1
        r3 == IF duration_minutes # None
              THEN SelectSeq(r2, LAMBDA w : DurationAtLeast(w, duration_minutes))
              ELSE r2
    IN r3

list_workouts_request(q) ==
    /\ resp' = Response("list_workouts", NoId, q, 200,
                        [items |-> list_workouts_results(q.user_name, q.workout_date,
                                              q.duration_minutes)])
    /\ UNCHANGED <<exercises, workouts, addresses, uuidCount, now, inflight>>

list_workouts ==
    /\ Alone("workouts")
    /\ \E q \in WorkoutQueries : list_workouts_request(q)

get_workout_outcome(workout_id) ==
    IF ~Has(workouts, workout_id)
    THEN Outcome(404, [detail |-> "Workout not found"], workouts)
    ELSE Outcome(200, Lookup(workouts, workout_id), workouts)

get_workout_request(workout_id) ==
    LET out == get_workout_outcome(workout_id)
    IN /\ resp' = Response("get_workout", workout_id, EmptyObject, out.status, out.body)
       /\ workouts' = out.store
       /\ UNCHANGED <<exercises, addresses, uuidCount, now, inflight>>

get_workout ==
    /\ Alone("workouts")
    /\ \E workout_id \in KnownUuids : get_workout_request(workout_id)

replace_workout_outcome(workout_id, workout, t1, t2) ==
    LET stored == SetItem(workouts, workout_id, WorkoutRead(workout, NoId, t1, t2))
    IN Outcome(200, Lookup(stored, workout_id), stored)

replace_workout_request(workout_id, body) ==
    IF ~WorkoutCreateValid(body)
    THEN /\ resp' = Response("replace_workout", workout_id, body, 422, Unprocessable)
         /\ UNCHANGED <<exercises, workouts, addresses, uuidCount, now, inflight>>
    ELSE /\ UuidLeft(body)
         /\ LET out == replace_workout_outcome(workout_id, ParsedWorkout(body), now, now)
            IN /\ workouts' = out.store
               /\ resp' = Response("replace_workout", workout_id, body,
                                   out.status, out.body)
         /\ uuidCount' = UuidCountAfter(body)
         /\ UNCHANGED <<exercises, addresses, now, inflight>>

replace_workout ==
    /\ Alone("workouts")
    /\ \E workout_id \in KnownUuids, body \in WorkoutCreateBodies :
          replace_workout_request(workout_id, body)

\* stored = workouts[workout_id].model_dump()
\* stored.update(update.model_dump(exclude_unset=True))
update_workout_stored(workout_id, update) ==
    DictUpdate(Lookup(workouts, workout_id), update)

update_workout_outcome(workout_id, update) ==
    IF ~Has(workouts, workout_id)
    THEN Outcome(404, [detail |-> "Workout not found"], workouts)
    ELSE LET stored == update_workout_stored(workout_id, update)
         IN IF ~WorkoutReadValid(stored)
            THEN Outcome(500, InternalServerError, workouts)
            ELSE LET after == SetItem(workouts, workout_id,
                                      WorkoutRead(stored, NoId, now, now))
                 IN Outcome(200, Lookup(after, workout_id), after)

update_workout_request(workout_id, body) ==
    IF ~WorkoutUpdateValid(body)
    THEN /\ resp' = Response("update_workout", workout_id, body, 422, Unprocessable)
         /\ UNCHANGED <<exercises, workouts, addresses, uuidCount, now, inflight>>
    ELSE LET out == update_workout_outcome(workout_id, WorkoutUpdate(body))
         IN /\ resp' = Response("update_workout", workout_id, body, out.status, out.body)
            /\ workouts' = out.store
            /\ UNCHANGED <<exercises, addresses, uuidCount, now, inflight>>

update_workout ==
    /\ Alone("workouts")
    /\ \E workout_id \in KnownUuids, body \in WorkoutPatches :
          update_workout_request(workout_id, body)

\* delete_workout without the del statement
delete_workout_outcome_kept(workout_id) ==
    IF ~Has(workouts, workout_id)
    THEN Outcome(404, [detail |-> "Workout not found"], workouts)
    ELSE Outcome(200, [message |-> "Workout deleted successfully"], workouts)

delete_workout_outcome(workout_id) ==
    IF ~Has(workouts, workout_id)
    THEN Outcome(404, [detail |-> "Workout not found"], workouts)
    ELSE Outcome(200, [message |-> "Workout deleted successfully"], DelItem(workouts, workout_id))

delete_workout_request(workout_id) ==
    LET out == delete_workout_outcome(workout_id)
    IN /\ resp' = Response("delete_workout", workout_id, EmptyObject, out.status, out.body)
       /\ workouts' = out.store
       /\ UNCHANGED <<exercises, addresses, uuidCount, now, inflight>>

delete_workout ==
    /\ Alone("workouts")
    /\ \E workout_id \in KnownUuids : delete_workout_request(workout_id)

(* ------------------------------ Address ------------------------------- *)

\* AddressCreate(**d): the fields that list_addresses reads, and an identifier
\* that defaults to uuid4(), here u
AddressCreate(d, u) ==
    [id |-> FieldOr(d, "id", u),
     street |-> d["street"],
     city |-> d["city"],
     state |-> d["state"],
     postal_code |-> d["postal_code"],
     country |-> d["country"]]

\* AddressRead(**d): created_at and updated_at default to two calls of utcnow()
AddressRead(d, u, t1, t2) ==
    [id |-> FieldOr(d, "id", u),
     street |-> d["street"],
     city |-> d["city"],
     state |-> d["state"],
     postal_code |-> d["postal_code"],
     country |-> d["country"],
     created_at |-> FieldOr(d, "created_at", t1),
     updated_at |-> FieldOr(d, "updated_at", t2)]

AddressUpdateFields == {"street", "city", "state", "postal_code", "country"}

\* AddressUpdate(**d).model_dump(exclude_unset=True)
AddressUpdate(d) == Restrict(d, AddressUpdateFields)

Home ==
    [street |-> Some("123 Main Street"), city |-> Some("New York"),
     state |-> Some("NY"), postal_code |-> Some("10001"), country |-> Some("USA")]

Office ==
    [street |-> Some("1 Broadway"), city |-> Some("New York"),
     state |-> Some("NY"), postal_code |-> Some("10004"), country |-> Some("USA")]

AddressBodies == {Home, Office}

AddressCreateBodies ==
    AddressBodies \cup {WithId(b, i) : b \in AddressBodies, i \in KnownUuids}

AddressPatches ==
    { [city |-> Some("Boston")],
      [id |-> 0, state |-> Some("MA"), postal_code |-> Some("02101")] }

NoAddressQuery ==
    [street |-> None, city |-> None, state |-> None, postal_code |-> None,
     country |-> None]

AddressQueries ==
    { NoAddressQuery,
      [NoAddressQuery EXCEPT !.street = Some("1 Broadway")],
      [NoAddressQuery EXCEPT !.city = Some("Boston")],
      [NoAddressQuery EXCEPT !.state = Some("NY")],
      [NoAddressQuery EXCEPT !.postal_code = Some("10001")],
      [NoAddressQuery EXCEPT !.country = Some("USA")],
      [NoAddressQuery EXCEPT !.city = Some("New York"), !.state = Some("MA")] }

(* -------------------------- Address endpoints ------------------------- *)

ParsedAddress(body) == AddressCreate(body, uuidCount + 1)

\* create_address without the duplicate check
create_address_outcome_overwrite(address, t1, t2) ==
    LET stored == SetItem(addresses, address.id, AddressRead(address, NoId, t1, t2))
    IN Outcome(201, Lookup(stored, address.id), stored)

create_address_outcome(address, t1, t2) ==
    IF Has(addresses, address.id)
    THEN Outcome(400, [detail |-> "Address with this ID already exists"], addresses)
    ELSE LET stored == SetItem(addresses, address.id, AddressRead(address, NoId, t1, t2))
         IN Outcome(201, Lookup(stored, address.id), stored)

create_address_request(body) ==
    /\ UuidLeft(body)
    /\ LET out == create_address_outcome(ParsedAddress(body), now, now)
       IN /\ addresses' = out.store
          /\ resp' = Response("create_address", NoId, body, out.status, out.body)
    /\ uuidCount' = UuidCountAfter(body)
    /\ UNCHANGED <<exercises, workouts, now, inflight>>

create_address ==
    /\ Alone("addresses")
    /\ \E body \in AddressCreateBodies : create_address_request(body)

list_addresses_results(street, city, state, postal_code, country) ==
    LET r0 == Values(addresses)
        r1 == KeepEqual(r0, "street", street)
        r2 == KeepEqual(r1, "city", city)
        r3 == KeepEqual(r2, "state", state)
        r4 == KeepEqual(r3, "postal_code", postal_code)
        r5 == KeepEqual(r4, "country", country)
    IN r5

list_addresses_request(q) ==
    /\ resp' = Response("list_addresses", NoId, q, 200,
                        [items |-> list_addresses_results(q.street, q.city, q.state,
                                               q.postal_code, q.country)])
    /\ UNCHANGED <<exercises, workouts, addresses, uuidCount, now, inflight>>

list_addresses ==
    /\ Alone("addresses")
    /\ \E q \in AddressQueries : list_addresses_request(q)

get_address_outcome(address_id) ==
    IF ~Has(addresses, address_id)
    THEN Outcome(404, [detail |-> "Address not found"], addresses)
    ELSE Outcome(200, Lookup(addresses, address_id), addresses)

get_address_request(address_id) ==
    LET out == get_address_outcome(address_id)
    IN /\ resp' = Response("get_address", address_id, EmptyObject, out.status, out.body)
       /\ addresses' = out.store
       /\ UNCHANGED <<exercises, workouts, uuidCount, now, inflight>>

get_address ==
    /\ Alone("addresses")
    /\ \E address_id \in KnownUuids : get_address_request(address_id)

update_address_outcome(address_id, update) ==
    IF ~Has(addresses, address_id)
    THEN Outcome(404, [detail |-> "Address not found"], addresses)
    ELSE LET stored == DictUpdate(Lookup(addresses, address_id), update)
             after == SetItem(addresses, address_id, AddressRead(stored, NoId, now, now))
         IN Outcome(200, Lookup(after, address_id), after)

update_address_request(address_id, body) ==
    LET out == update_address_outcome(address_id, AddressUpdate(body))
    IN /\ resp' = Response("update_address", address_id, body, out.status, out.body)
       /\ addresses' = out.store
       /\ UNCHANGED <<exercises, workouts, uuidCount, now, inflight>>

update_address ==
    /\ Alone("addresses")
    /\ \E address_id \in KnownUuids, body \in AddressPatches :
          update_address_request(address_id, body)

(* ------------------- handlers on the worker threads ------------------- *)

\* The handlers are plain def functions, which the framework calls on the
\* worker threads of its pool: requests that are in flight together run their
\* handlers interleaved.  One access of a store dict (a membership test, a
\* subscription, an item assignment, a del) is one step; what a handler computes
\* on its locals between two accesses is part of one of the two steps.

Threads == 1..MaxThreads

\* inflight[t] is the request on worker thread t: the handler (op), where it
\* stands in it (pc), its path parameter (id) and body (req), its local
\* variable stored, and its response once the handler has ended
IdleThread ==
    [op |-> "none", pc |-> "idle", id |-> NoId, req |-> EmptyObject,
     stored |-> EmptyObject, status |-> 0, body |-> EmptyObject]

\* a request is given to the first worker thread that is free
FirstIdle(t) ==
    /\ inflight[t].pc = "idle"
    /\ \A u \in 1..(t - 1) : inflight[u].pc # "idle"

At(t, op, pc) == inflight[t].op = op /\ inflight[t].pc = pc

\* thread t enters the handler op and stands before the access pc
Started(t, op, pc, id, req) ==
    inflight' = [inflight EXCEPT ![t] =
                    [IdleThread EXCEPT !.op = op, !.pc = pc, !.id = id, !.req = req]]

\* thread t moves on to the access pc with its local stored
Moved(t, pc, stored) ==
    inflight' = [inflight EXCEPT ![t].pc = pc, ![t].stored = stored]

\* the handler on thread t ends, by a return or by an exception
Ended(t, op, id, req, status, body) ==
    inflight' = [inflight EXCEPT ![t] =
                    [IdleThread EXCEPT !.op = op, !.pc = "done", !.id = id,
                                       !.req = req, !.status = status, !.body = body]]

Returned(t, status, body) ==
    Ended(t, inflight[t].op, inflight[t].id, inflight[t].req, status, body)

\* the responses of the requests that have ended are sent once no handler is
\* running, and their threads are free again
respond ==
    /\ \E t \in Threads : inflight[t].pc = "done"
    /\ \A t \in Threads : inflight[t].pc \in {"idle", "done"}
    /\ inflight' = [t \in Threads |-> IdleThread]
    /\ UNCHANGED <<exercises, workouts, addresses, uuidCount, now, resp>>

\* create_exercise: the only access of the store is the item assignment
create_exercise_call ==
    /\ Alone("exercises")
    /\ \E t \in Threads, body \in ExerciseCreateBodies :
          /\ FirstIdle(t)
          /\ IF ~ExerciseBaseValid(body)
             THEN /\ Ended(t, "create_exercise", NoId, body, 422, Unprocessable)
                  /\ UNCHANGED <<exercises, uuidCount>>
             ELSE /\ UuidLeft(body)
                  /\ LET out == create_exercise_outcome(ParsedExercise(body), now, now)
                     IN /\ exercises' = out.store
                        /\ Ended(t, "create_exercise", NoId, body, out.status, out.body)
                  /\ uuidCount' = UuidCountAfter(body)
    /\ UNCHANGED <<workouts, addresses, now, resp>>

\* update_exercise: if exercise_id not in exercises
update_exercise_check ==
    /\ Alone("exercises")
    /\ \E t \in Threads, exercise_id \in KnownUuids, body \in ExercisePatches :
          /\ FirstIdle(t)
          /\ IF ~Has(exercises, exercise_id)
             THEN Ended(t, "update_exercise", exercise_id, body,
                        404, [detail |-> "Exercise not found"])
             ELSE Started(t, "update_exercise", "read", exercise_id, body)
    /\ UNCHANGED <<exercises, workouts, addresses, uuidCount, now, resp>>

\* stored = exercises[exercise_id].model_dump(), a KeyError when the key is gone,
\* then stored.update(update.model_dump(exclude_unset=True))
update_exercise_read ==
    /\ \E t \in Threads :
          /\ At(t, "update_exercise", "read")
          /\ IF ~Has(exercises, inflight[t].id)
             THEN Returned(t, 500, InternalServerError)
             ELSE Moved(t, "write",
                        update_exercise_stored(inflight[t].id,
                                               ExerciseUpdate(inflight[t].req)))
    /\ UNCHANGED <<exercises, workouts, addresses, uuidCount, now, resp>>

\* exercises[exercise_id] = ExerciseRead(**stored): the assignment inserts the
\* key when it is gone
update_exercise_write ==
    /\ \E t \in Threads :
          /\ At(t, "update_exercise", "write")
          /\ IF ~ExerciseBaseValid(inflight[t].stored)
             THEN /\ Returned(t, 500, InternalServerError)
                  /\ UNCHANGED exercises
             ELSE /\ exercises' = SetItem(exercises, inflight[t].id,
                                          ExerciseRead(inflight[t].stored, NoId, now, now))
                  /\ Moved(t, "return", EmptyObject)
    /\ UNCHANGED <<workouts, addresses, uuidCount, now, resp>>

\* return exercises[exercise_id], a KeyError when the key is gone
update_exercise_return ==
    /\ \E t \in Threads :
          /\ At(t, "update_exercise", "return")
          /\ IF ~Has(exercises, inflight[t].id)
             THEN Returned(t, 500, InternalServerError)
             ELSE Returned(t, 200, Lookup(exercises, inflight[t].id))
    /\ UNCHANGED <<exercises, workouts, addresses, uuidCount, now, resp>>

\* delete_exercise: if exercise_id not in exercises
delete_exercise_check ==
    /\ Alone("exercises")
    /\ \E t \in Threads, exercise_id \in KnownUuids :
          /\ FirstIdle(t)
          /\ IF ~Has(exercises, exercise_id)
             THEN Ended(t, "delete_exercise", exercise_id, EmptyObject,
                        404, [detail |-> "Exercise not found"])
             ELSE Started(t, "delete_exercise", "del", exercise_id, EmptyObject)
    /\ UNCHANGED <<exercises, workouts, addresses, uuidCount, now, resp>>

\* del exercises[exercise_id], a KeyError when the key is gone
delete_exercise_del ==
    /\ \E t \in Threads :
          /\ At(t, "delete_exercise", "del")
          /\ IF ~Has(exercises, inflight[t].id)
             THEN /\ Returned(t, 500, InternalServerError)
                  /\ UNCHANGED exercises
             ELSE /\ exercises' = DelItem(exercises, inflight[t].id)
                  /\ Returned(t, 200, [message |-> "Exercise deleted successfully"])
    /\ UNCHANGED <<workouts, addresses, uuidCount, now, resp>>

\* create_workout: the only access of the store is the item assignment
create_workout_call ==
    /\ Alone("workouts")
    /\ \E t \in Threads, body \in WorkoutCreateBodies :
          /\ FirstIdle(t)
          /\ IF ~WorkoutCreateValid(body)
             THEN /\ Ended(t, "create_workout", NoId, body, 422, Unprocessable)
                  /\ UNCHANGED <<workouts, uuidCount>>
             ELSE /\ UuidLeft(body)
                  /\ LET out == create_workout_outcome(ParsedWorkout(body), now, now)
                     IN /\ workouts' = out.store
                        /\ Ended(t, "create_workout", NoId, body, out.status, out.body)
                  /\ uuidCount' = UuidCountAfter(body)
    /\ UNCHANGED <<exercises, addresses, now, resp>>

\* update_workout: if workout_id not in workouts
update_workout_check ==
    /\ Alone("workouts")
    /\ \E t \in Threads, workout_id \in KnownUuids, body \in WorkoutPatches :
          /\ FirstIdle(t)
          /\ IF ~WorkoutUpdateValid(body)
             THEN Ended(t, "update_workout", workout_id, body, 422, Unprocessable)
             ELSE IF ~Has(workouts, workout_id)
                  THEN Ended(t, "update_workout", workout_id, body,
                             404, [detail |-> "Workout not found"])
                  ELSE Started(t, "update_workout", "read", workout_id, body)
    /\ UNCHANGED <<exercises, workouts, addresses, uuidCount, now, resp>>

\* stored = workouts[workout_id].model_dump(), a KeyError when the key is gone,
\* then stored.update(update.model_dump(exclude_unset=True))
update_workout_read ==
    /\ \E t \in Threads :
          /\ At(t, "update_workout", "read")
          /\ IF ~Has(workouts, inflight[t].id)
             THEN Returned(t, 500, InternalServerError)
             ELSE Moved(t, "write",
                        update_workout_stored(inflight[t].id,
                                              WorkoutUpdate(inflight[t].req)))
    /\ UNCHANGED <<exercises, workouts, addresses, uuidCount, now, resp>>

\* workouts[workout_id] = WorkoutRead(**stored): the assignment inserts the key
\* when it is gone
update_workout_write ==
    /\ \E t \in Threads :
          /\ At(t, "update_workout", "write")
          /\ IF ~WorkoutReadValid(inflight[t].stored)
             THEN /\ Returned(t, 500, InternalServerError)
                  /\ UNCHANGED workouts
             ELSE /\ workouts' = SetItem(workouts, inflight[t].id,
                                         WorkoutRead(inflight[t].stored, NoId, now, now))
                  /\ Moved(t, "return", EmptyObject)
    /\ UNCHANGED <<exercises, addresses, uuidCount, now, resp>>

\* return workouts[workout_id], a KeyError when the key is gone
update_workout_return ==
    /\ \E t \in Threads :
          /\ At(t, "update_workout", "return")
          /\ IF ~Has(workouts, inflight[t].id)
             THEN Returned(t, 500, InternalServerError)
             ELSE Returned(t, 200, Lookup(workouts, inflight[t].id))
    /\ UNCHANGED <<exercises, workouts, addresses, uuidCount, now, resp>>

\* delete_workout: if workout_id not in workouts
delete_workout_check ==
    /\ Alone("workouts")
    /\ \E t \in Threads, workout_id \in KnownUuids :
          /\ FirstIdle(t)
          /\ IF ~Has(workouts, workout_id)
             THEN Ended(t, "delete_workout", workout_id, EmptyObject,
                        404, [detail |-> "Workout not found"])
             ELSE Started(t, "delete_workout", "del", workout_id, EmptyObject)
    /\ UNCHANGED <<exercises, workouts, addresses, uuidCount, now, resp>>

\* del workouts[workout_id], a KeyError when the key is gone
delete_workout_del ==
    /\ \E t \in Threads :
          /\ At(t, "delete_workout", "del")
          /\ IF ~Has(workouts, inflight[t].id)
             THEN /\ Returned(t, 500, InternalServerError)
                  /\ UNCHANGED workouts
             ELSE /\ workouts' = DelItem(workouts, inflight[t].id)
                  /\ Returned(t, 200, [message |-> "Workout deleted successfully"])
    /\ UNCHANGED <<exercises, addresses, uuidCount, now, resp>>

(* ------------------------------ behaviours ---------------------------- *)

Init ==
    /\ exercises = <<>>
    /\ workouts = <<>>
    /\ addresses = <<>>
    /\ uuidCount = 0
    /\ now = 0
    /\ resp = Response("none", NoId, EmptyObject, 0, EmptyObject)
    /\ inflight = [t \in Threads |-> IdleThread]

Next ==
    \/ Tick
    \/ create_exercise
    \/ list_exercises
    \/ get_exercise
    \/ replace_exercise
    \/ update_exercise
    \/ delete_exercise
    \/ create_workout
    \/ list_workouts
    \/ get_workout
    \/ replace_workout
    \/ update_workout
    \/ delete_workout
    \/ create_address
    \/ list_addresses
    \/ get_address
    \/ update_address

Spec == Init /\ [][Next]_vars

\* the requests to the Exercise and the Workout store that are handled together
ThreadedNext ==
    \/ Tick
    \/ respond
    \/ create_exercise_call
    \/ update_exercise_check
    \/ update_exercise_read
    \/ update_exercise_write
    \/ update_exercise_return
    \/ delete_exercise_check
    \/ delete_exercise_del
    \/ create_workout_call
    \/ update_workout_check
    \/ update_workout_read
    \/ update_workout_write
    \/ update_workout_return
    \/ delete_workout_check
    \/ delete_workout_del

ThreadedSpec == Init /\ [][ThreadedNext]_vars

(* ------------------------------ claims -------------------------------- *)

\* the step is the handling of the request that resp' answers
IsCreateExercise == resp'.op = "create_exercise" /\ create_exercise_request(resp'.req)

IsGetExercise == resp'.op = "get_exercise" /\ get_exercise_request(resp'.id)

IsReplaceExercise ==
    resp'.op = "replace_exercise" /\ replace_exercise_request(resp'.id, resp'.req)

IsUpdateExercise ==
    resp'.op = "update_exercise" /\ update_exercise_request(resp'.id, resp'.req)

IsDeleteExercise == resp'.op = "delete_exercise" /\ delete_exercise_request(resp'.id)

IsListExercises == resp'.op = "list_exercises" /\ list_exercises_request(resp'.req)

IsCreateWorkout == resp'.op = "create_workout" /\ create_workout_request(resp'.req)

IsGetWorkout == resp'.op = "get_workout" /\ get_workout_request(resp'.id)

IsReplaceWorkout ==
    resp'.op = "replace_workout" /\ replace_workout_request(resp'.id, resp'.req)

IsUpdateWorkout ==
    resp'.op = "update_workout" /\ update_workout_request(resp'.id, resp'.req)

IsDeleteWorkout == resp'.op = "delete_workout" /\ delete_workout_request(resp'.id)

IsListWorkouts == resp'.op = "list_workouts" /\ list_workouts_request(resp'.req)

IsGetAddress == resp'.op = "get_address" /\ get_address_request(resp'.id)

IsUpdateAddress ==
    resp'.op = "update_address" /\ update_address_request(resp'.id, resp'.req)

IsCreateAddress == resp'.op = "create_address" /\ create_address_request(resp'.req)

IsListAddresses == resp'.op = "list_addresses" /\ list_addresses_request(resp'.req)

\* every record of a store carries the key it is stored under
KeyIsId(d) == \A i \in 1..Len(d) : d[i].v.id = d[i].k

\* the store before and after agree on every key other than key
SameElsewhere(before, after, key) ==
    /\ Keys(before) \ {key} = Keys(after) \ {key}
    /\ \A k \in Keys(before) \ {key} : Lookup(after, k) = Lookup(before, k)

\* C1: identifier stability.  In every reachable state the record stored under
\* key K in the Exercise and the Workout store carries identifier K, and a
\* successful Get(X) returns a record whose id is X.
C1_IdentifierStable ==
    /\ KeyIsId(exercises)
    /\ KeyIsId(workouts)
    /\ (resp.op \in {"get_exercise", "get_workout"} /\ resp.status = 200)
          => resp.body.id = resp.id

\* a successful Create returns a record whose identifier is not empty and was
\* no key of the store, adds exactly that record and changes no other
CreateIsFresh(before, after) ==
    resp'.status = 201 =>
        /\ resp'.body.id \in Int
        /\ ~Has(before, resp'.body.id)
        /\ Len(after) = Len(before) + 1
        /\ Lookup(after, resp'.body.id) = resp'.body
        /\ SameElsewhere(before, after, resp'.body.id)

\* C2: Create never collides.  For every valid Create payload, with or without
\* an identifier, the identifier of the returned record was not a key of the
\* store before the call; the store grows by exactly one record and every
\* record stored before is unchanged.
C2_CreateNeverCollides ==
    [][ /\ IsCreateExercise => CreateIsFresh(exercises, exercises')
        /\ IsCreateWorkout => CreateIsFresh(workouts, workouts') ]_vars

\* C3: Create regenerates the identifier.  After a successful Create of an
\* Exercise or a Workout whose payload carries an identifier C, the returned
\* record's identifier is not C.
C3_CreateRegeneratesId ==
    ( /\ resp.op \in {"create_exercise", "create_workout"}
      /\ resp.status = 201
      /\ "id" \in DOMAIN resp.req )
        => resp.body.id # resp.req["id"]

\* the fields of a record that no Update payload names
ServerFields == {"id", "created_at", "updated_at"}

\* after a successful Update of key with the JSON body, the record under key
\* has the body's value in every Update field the body names and its old value
\* in every other field, and the rest of the store is as before
UpdateIsSelective(before, after, key, body) ==
    resp'.status = 200 =>
        /\ [i \in 1..Len(after) |-> after[i].k] = [i \in 1..Len(before) |-> before[i].k]
        /\ SameElsewhere(before, after, key)
        /\ LET old == Lookup(before, key)
               new == Lookup(after, key)
           IN /\ DOMAIN new = DOMAIN old
              /\ resp'.body = new
              /\ \A f \in DOMAIN old :
                    new[f] = IF f \in DOMAIN body \ ServerFields THEN body[f] ELSE old[f]

ExerciseFields ==
    {"id", "name", "muscle_group", "equipment", "difficulty", "instructions",
     "calories_per_minute", "created_at", "updated_at"}

WorkoutFields ==
    {"id", "user_name", "workout_date", "exercises", "duration_minutes",
     "calories_burned", "notes", "created_at", "updated_at"}

\* a record with every field of its shape, an identifier, both timestamps and
\* a value in every required field
Complete(r, fields, required) ==
    /\ DOMAIN r = fields
    /\ r.id \in Int /\ r.created_at \in Int /\ r.updated_at \in Int
    /\ \A f \in required : r[f] # None

RecordsComplete ==
    /\ \A i \in 1..Len(exercises) :
          Complete(exercises[i].v, ExerciseFields,
                   {"name", "muscle_group", "difficulty", "instructions"})
    /\ \A i \in 1..Len(workouts) :
          Complete(workouts[i].v, WorkoutFields,
                   {"user_name", "workout_date", "exercises"})

\* a request that did not succeed answered with an error and left the store alone
FailsClean(before, after) ==
    resp'.status # 200 => (resp'.status \in {404, 422, 500} /\ after = before)

\* C5: no partial application.  Every stored Exercise and Workout is complete
\* in every reachable state, and an Update or a Replace that fails returns an
\* error and leaves the store exactly as it was.
C5_RecordsAlwaysComplete ==
    /\ []RecordsComplete
    /\ [][ /\ (IsUpdateExercise \/ IsReplaceExercise) => FailsClean(exercises, exercises')
           /\ (IsUpdateWorkout \/ IsReplaceWorkout) => FailsClean(workouts, workouts') ]_vars

\* an Update that sets the required name of a stored exercise to null failed,
\* and the record still has its name
C5_Witness ==
    /\ resp.op = "update_exercise" /\ resp.status = 500
    /\ resp.req = [name |-> None]
    /\ Has(exercises, resp.id)
    /\ Lookup(exercises, resp.id).name = Some("Push-ups")

\* the request on an identifier that is no key answered 404 and left the store alone
Rejected(before, after, id) ==
    ~Has(before, id) => (resp'.status = 404 /\ after = before)

\* C6: unknown identifiers.  Get, Update (with any payload) and Delete of an
\* identifier that is no key of the store return 404 and leave the store
\* unchanged, in the Exercise, the Workout and the Address store.
C6_UnknownIdRejected ==
    [][ /\ (IsGetExercise \/ IsUpdateExercise \/ IsDeleteExercise)
              => Rejected(exercises, exercises', resp'.id)
        /\ (IsGetWorkout \/ IsUpdateWorkout \/ IsDeleteWorkout)
              => Rejected(workouts, workouts', resp'.id)
        /\ (IsGetAddress \/ IsUpdateAddress)
              => Rejected(addresses, addresses', resp'.id) ]_vars

\* an Update that sets a required field to null, sent to an identifier that
\* is no key of a store that holds a record, was answered 404
C6_Witness ==
    /\ resp.op = "update_workout" /\ resp.status = 404
    /\ resp.req = [exercises |-> None]
    /\ Len(workouts) = 1
    /\ ~Has(workouts, resp.id)

\* a successful Delete removes the key and nothing else
DeleteIsLocal(before, after, id) ==
    Has(before, id) =>
        /\ resp'.status = 200
        /\ ~Has(after, id)
        /\ Len(after) = Len(before) - 1
        /\ SameElsewhere(before, after, id)

\* C7: Delete is effective and local.  A successful Delete(X) removes X and
\* changes no other record; while X is no key Get(X) and Update(X) return 404;
\* and X becomes a key again only by a Create or a Replace.
C7_DeleteEffective ==
    [][ /\ IsDeleteExercise => DeleteIsLocal(exercises, exercises', resp'.id)
        /\ IsDeleteWorkout => DeleteIsLocal(workouts, workouts', resp'.id)
        /\ ((IsGetExercise \/ IsUpdateExercise) /\ ~Has(exercises, resp'.id))
              => resp'.status = 404
        /\ ((IsGetWorkout \/ IsUpdateWorkout) /\ ~Has(workouts, resp'.id))
              => resp'.status = 404
        /\ \A id \in Keys(exercises') \ Keys(exercises) :
              IsCreateExercise \/ (IsReplaceExercise /\ resp'.id = id)
        /\ \A id \in Keys(workouts') \ Keys(workouts) :
              IsCreateWorkout \/ (IsReplaceWorkout /\ resp'.id = id) ]_vars

\* one of two stored exercises was deleted and the other is still there
C7_Witness ==
    /\ resp.op = "delete_exercise" /\ resp.status = 200
    /\ Len(exercises) = 1
    /\ ~Has(exercises, resp.id)

\* the stored workouts whose duration is set and at least the threshold
AtLeast(store, threshold) ==
    SelectSeq(Values(store),
              LAMBDA w : w.duration_minutes # None /\ w.duration_minutes[1] >= threshold)

\* C8: the duration filter is a minimum threshold.  List(duration_minutes=T),
\* with no other filter, returns exactly the stored workouts whose
\* duration_minutes is set and at least T, for T zero and negative too.
C8_DurationIsThreshold ==
    ( /\ resp.op = "list_workouts"
      /\ resp.req.duration_minutes # None
      /\ resp.req.user_name = None
      /\ resp.req.workout_date = None )
        => resp.body.items = AtLeast(workouts, resp.req.duration_minutes[1])

\* the records of the store that have the query's value in every field the
\* query names
Matching(store, q) ==
    SelectSeq(Values(store), LAMBDA r : \A f \in DOMAIN q : q[f] # None => r[f] = q[f])

\* C9: List is exact and read-only.  For every store state and every
\* combination of equality filters, List of the Exercise and of the Address
\* store, and List of the Workout store by user_name, returns exactly the
\* stored records that satisfy every supplied filter (the whole store when none
\* is supplied) and leaves the store unchanged.
C9_ListExact ==
    [][ /\ IsListWorkouts =>
              /\ workouts' = workouts
              /\ resp'.status = 200
              /\ (resp'.req.workout_date = None /\ resp'.req.duration_minutes = None)
                    => resp'.body.items
                          = Matching(workouts, [user_name |-> resp'.req.user_name])
        /\ IsListExercises =>
              /\ exercises' = exercises
              /\ resp'.status = 200
              /\ resp'.body.items = Matching(exercises, resp'.req)
        /\ IsListAddresses =>
              /\ addresses' = addresses
              /\ resp'.status = 200
              /\ resp'.body.items = Matching(addresses, resp'.req) ]_vars

\* of two stored exercises with the same muscle group, a List with two filters
\* returned the one that also has the difficulty asked for
C9_Witness ==
    /\ resp.op = "list_exercises"
    /\ resp.req.muscle_group = Some("Chest") /\ resp.req.difficulty = Some("Beginner")
    /\ Len(exercises) = 2
    /\ \A i \in 1..2 : exercises[i].v.muscle_group = Some("Chest")
    /\ Len(resp.body.items) = 1
    /\ resp.body.items[1].difficulty = Some("Beginner")

\* C10: Address Create rejects duplicates.  When the payload's identifier is a
\* key of the Address store, Create returns 400 and the store is unchanged;
\* otherwise the record is stored under the payload's identifier (a generated
\* one when the payload has none) and no other record changes.
C10_AddressCreateRejectsDuplicates ==
    [][ IsCreateAddress =>
          IF "id" \in DOMAIN resp'.req /\ Has(addresses, resp'.req["id"])
          THEN /\ resp'.status = 400
               /\ addresses' = addresses
          ELSE /\ resp'.status = 201
               /\ "id" \in DOMAIN resp'.req => resp'.body.id = resp'.req["id"]
               /\ ~Has(addresses, resp'.body.id)
               /\ Has(addresses', resp'.body.id)
               /\ Lookup(addresses', resp'.body.id) = resp'.body
               /\ \A f \in AddressUpdateFields : resp'.body[f] = resp'.req[f]
               /\ SameElsewhere(addresses, addresses', resp'.body.id) ]_vars

\* a Create whose identifier is already a key was answered 400, and the record
\* under that key is not the payload's
C10_Witness ==
    /\ resp.op = "create_address" /\ resp.status = 400
    /\ Has(addresses, resp.req["id"])
    /\ Lookup(addresses, resp.req["id"]).street # resp.req["street"]

(* ------------------ requests handled at the same time ----------------- *)

DoneWith(t, op) == inflight[t].op = op /\ inflight[t].pc = "done"

\* no request other than those on the threads of S has run since the threads
\* were last all free
OnlyInFlight(S) == \A w \in Threads \ S : inflight[w].pc = "idle"

\* the record stored under id carries every field of the payload
Applied(store, id, patch) ==
    /\ Has(store, id)
    /\ \A f \in DOMAIN patch : Lookup(store, id)[f] = patch[f]

\* two Updates of one identifier that each set some field, and no field in
\* common, both answered 200, are both in the stored record
BothApply(op, store, Patch(_)) ==
    \A t, u \in Threads :
        ( /\ t # u
          /\ DoneWith(t, op) /\ DoneWith(u, op)
          /\ OnlyInFlight({t, u})
          /\ inflight[t].id = inflight[u].id
          /\ inflight[t].status = 200 /\ inflight[u].status = 200
          /\ DOMAIN Patch(inflight[t].req) # {}
          /\ DOMAIN Patch(inflight[u].req) # {}
          /\ DOMAIN Patch(inflight[t].req) \cap DOMAIN Patch(inflight[u].req) = {} )
        => /\ Applied(store, inflight[t].id, Patch(inflight[t].req))
           /\ Applied(store, inflight[u].id, Patch(inflight[u].req))

\* C11: serial request handling.  The store after requests that were handled
\* together is the store after running them one after another in some order;
\* stated for its named case: when two partial Updates of the same identifier
\* that set disjoint fields have both returned 200 and no other request ran
\* with them, the stored record carries the fields of both payloads (whichever
\* ran second kept the fields of the first).
C11_ConcurrentUpdatesBothApply ==
    /\ BothApply("update_exercise", exercises, ExerciseUpdate)
    /\ BothApply("update_workout", workouts, WorkoutUpdate)

\* the payload sets none of the given fields to null, so the merged record
\* passes the validation of the Read shape
KeepsValid(patch, fields) == \A f \in DOMAIN patch \cap fields : patch[f] # None

\* a Delete answered 200 and an Update of the same identifier, with no other
\* request: the identifier is absent and the Update was answered 200 or 404
StaysDeleted(delete, update, store, Patch(_), fields) ==
    \A t, u \in Threads :
        ( /\ t # u
          /\ DoneWith(t, delete) /\ inflight[t].status = 200
          /\ DoneWith(u, update)
          /\ OnlyInFlight({t, u})
          /\ inflight[t].id = inflight[u].id
          /\ KeepsValid(Patch(inflight[u].req), fields) )
        => /\ ~Has(store, inflight[t].id)
           /\ inflight[u].status \in {200, 404}

\* C12: no resurrection.  When a Delete of X has succeeded and an Update of X
\* that ran with it has ended, X is absent from the store and the Update was
\* answered with the merged record (200) or NotFound (404), never with an
\* unhandled failure (500).  An Update that ended before the Delete began, or
\* made its existence check after the Delete ended, satisfies this in any case,
\* so the statement is about the Update that had passed its check and was still
\* running when the Delete completed.
C12_DeleteNotUndoneByUpdate ==
    /\ StaysDeleted("delete_exercise", "update_exercise", exercises,
                    ExerciseUpdate, ExerciseRequired)
    /\ StaysDeleted("delete_workout", "update_workout", workouts,
                    WorkoutUpdate, WorkoutRequired \cup {"exercises"})

====
